---- MODULE Spec2Model ----
(***************************************************************************)
(* rss_to_discord.py: one run() per process start.  A run gathers the      *)
(* entries of every configured feed, sorts them newest first, loads the    *)
(* watermark file, posts at most the newest item that is newer than the    *)
(* watermark and stores that item's timestamp as the new watermark.        *)
(***************************************************************************)
EXTENDS Integers, Sequences, FiniteSets, TLC

\* ---------------------------------------------------------------- bounds
\* Largest timestamp a feed entry carries (epoch seconds, scaled down).
MaxTs == 2
\* Largest number of entries all feeds together return in one run.
MaxItems == 2
\* How far below and above the cap the lengths of the texts handed to
\* post_to_discord go, and the length of an oversized text.
LenSlack == 2
LongLen == 5000

\* ---------------------------------------------------------- configuration
\* FEEDS (line 10): the configured feed URLs, in configuration order.
FEEDS == <<"A", "B">>

\* Entry ids the feeds use.
Keys == {"a", "b"}

\* ------------------------------------------------------- optional values
\* Python's None / a float, for load_watermark's result and last_ts.
None == [some |-> FALSE, v |-> 0]
Some(n) == [some |-> TRUE, v |-> n]

\* A parsed time of an entry (published_parsed, ...): absent or None,
\* a struct_time that time.mktime converts, or one on which it raises.
NoTime == [kind |-> "none", v |-> 0]
BadTime == [kind |-> "bad", v |-> 0]
Time(n) == [kind |-> "ok", v |-> n]

\* ----------------------------------------------------------- feed entries
\* The raw entries feedparser returns.  published_parsed is absent or a
\* positive time; the unknown timestamp 0 comes from ts_of's default.
Entries ==
  [id : Keys,
   published_parsed : {NoTime} \cup {Time(t) : t \in 1..MaxTs},
   updated_parsed : {NoTime},
   created_parsed : {NoTime}]

\* entry_key (lines 19-23): the first non-empty of id, guid, link.  The
\* entries drawn here always carry an id.
entry_key(e) == e.id

\* ts_of (lines 25-32): published > updated > created, a value on which
\* mktime raises is skipped, else 0.
ts_of(e) ==
  IF e.published_parsed.kind = "ok" THEN e.published_parsed.v
  ELSE IF e.updated_parsed.kind = "ok" THEN e.updated_parsed.v
  ELSE IF e.created_parsed.kind = "ok" THEN e.created_parsed.v
  ELSE 0

\* The item record run() appends (lines 65-72).  title, link and desc are
\* copied from the entry and take no part in the selection.
Item(e, url) == [ts |-> ts_of(e), key |-> entry_key(e), feed |-> url]

NoItem == [ts |-> 0, key |-> "", feed |-> ""]

\* ---------------------------------------------------------------- gather
\* What feedparser.parse(url) hands to the loop of line 64 as f.entries: the
\* entries of the feed, or none when fetching or parsing the feed failed.
ParseResult(entries, isDown) == IF isDown THEN <<>> ELSE entries

\* The entries the feed FEEDS[k] holds: es lists the entries of all feeds,
\* feed by feed, and fa[i] is the feed of es[i].
FeedEntries(k, es, fa) ==
  LET tagged == [i \in 1..Len(es) |-> [e |-> es[i], f |-> fa[i]]]
      mine == SelectSeq(tagged, LAMBDA r : r.f = k)
  IN [i \in 1..Len(mine) |-> mine[i].e]

\* The items lines 64-72 append for feed k.
ItemsOfFeed(k, es, fa, down) ==
  LET entries == ParseResult(FeedEntries(k, es, fa), k \in down)
  IN [i \in 1..Len(entries) |-> Item(entries[i], FEEDS[k])]

\* A loop that ends at the first feed without entries.
RECURSIVE GatherStopAtEmpty(_, _, _, _)
GatherStopAtEmpty(k, es, fa, down) ==
  IF k > Len(FEEDS) \/ ItemsOfFeed(k, es, fa, down) = <<>> THEN <<>>
  ELSE ItemsOfFeed(k, es, fa, down) \o GatherStopAtEmpty(k + 1, es, fa, down)

\* The loop of lines 62-72 from feed k on: every feed in turn, whatever the
\* feeds before it returned.
RECURSIVE GatherFrom(_, _, _, _)
GatherFrom(k, es, fa, down) ==
  IF k > Len(FEEDS) THEN <<>>
  ELSE ItemsOfFeed(k, es, fa, down) \o GatherFrom(k + 1, es, fa, down)

\* --------------------------------------------------------- watermark file
\* The content of state/watermark.json as json.loads and float() see it:
\*   kind "missing"   the file does not exist
\*   kind "garbage"   not parseable as JSON (empty, cut short, noise)
\*   kind "nonobject" JSON, but not an object (a list, a number)
\*   kind "object"    a JSON object; t tells what its last_ts field is:
\*        "absent" no such field, "num" a number v, "numstr" a string
\*        spelling the number v, "null" null, "badstr" any other string.
FileOf(k, t, v) == [kind |-> k, t |-> t, v |-> v]
Missing == FileOf("missing", "absent", 0)
Garbage == FileOf("garbage", "absent", 0)
NonObject == FileOf("nonobject", "absent", 0)
Record(n) == FileOf("object", "num", n)

Malformed ==
  {Garbage, NonObject, FileOf("object", "absent", 0),
   FileOf("object", "null", 0), FileOf("object", "badstr", 0)}

FileStates ==
  {Missing} \cup Malformed \cup {Record(n) : n \in 0..MaxTs}
  \cup {FileOf("object", "numstr", MaxTs)}

\* A load that never finds the record.
load_watermark_none(f) == None

\* load_watermark (lines 34-40).
load_watermark(f) ==
  IF f.kind = "missing" THEN None
  ELSE IF f.kind # "object" THEN None            \* json.loads / .get raises
  ELSE IF f.t = "absent" THEN Some(0)            \* data.get("last_ts", 0.0)
  ELSE IF f.t \in {"num", "numstr"} THEN Some(f.v)  \* float(...)
  ELSE None                                      \* float(...) raises

\* save_watermark (lines 42-43) when write_text completes.
save_watermark(ts_val) == Record(ts_val)

\* save_watermark when write_text raises: open() failed and the file is as
\* it was, or the file was opened (truncated) and the write did not finish.
FailedWrite(f) == {f, Garbage}


\* -------------------------------------------------------------- selection
\* The sort left out: items stay in gathered order.
SortNone(s) == s

\* list.sort(key=ts, reverse=True) (line 79): descending by timestamp and
\* stable, items of equal timestamp keep their gathered order.
RECURSIVE InsertDesc(_, _)
InsertDesc(x, s) ==
  IF s = <<>> THEN <<x>>
  ELSE IF Head(s).ts >= x.ts THEN <<Head(s)>> \o InsertDesc(x, Tail(s))
  ELSE <<x>> \o s

RECURSIVE SortDesc(_)
SortDesc(s) ==
  IF s = <<>> THEN <<>>
  ELSE InsertDesc(s[Len(s)], SortDesc(SubSeq(s, 1, Len(s) - 1)))

\* The comparison of line 102 written with >=.
IsNewerGe(it, w) == it.ts >= w

\* The list comprehension of line 102: items strictly newer than last_ts.
IsNewer(it, w) == it.ts > w
candidates(its, w) == SelectSeq(its, LAMBDA it : IsNewer(it, w))

\* The last candidate instead of the greatest.
MaxByTsLast(s) == s[Len(s)]

\* max(candidates, key=ts) (line 108): the first item of greatest timestamp.
RECURSIVE MaxFrom(_, _)
MaxFrom(best, s) ==
  IF s = <<>> THEN best
  ELSE MaxFrom(IF Head(s).ts > best.ts THEN Head(s) ELSE best, Tail(s))

MaxByTs(s) == MaxFrom(Head(s), Tail(s))

\* A first run that seeds whatever the policy says.
FirstRunAlwaysSeed(policy) == "seed"

\* A first run that posts whatever the policy says.
FirstRunAlwaysPost(policy) == "post1"

\* The branch of lines 87-98 on a first run.
FirstRunBranch(policy) == IF policy THEN "post1" ELSE "seed"

\* An except clause that tries the post again.
OnPostErrorRetry(at) == at

\* An except clause after which the watermark is saved all the same.
OnPostErrorSave(at) == IF at = "post1" THEN "save1" ELSE "save2"

\* Where a run goes when post_to_discord raises: the except clauses of
\* lines 93-94 and 113-114 print the error and the run ends.
OnPostError(at) == "done"

\* A save after a post that stores a timestamp just below the item's.
SaveArgEarlier(it) == IF it.ts > 0 THEN it.ts - 1 ELSE 0

\* A watermark later than the posted item (the time of posting).
SaveArgLater(it) == it.ts + 1

\* The argument of the save_watermark call after a post (lines 91, 111).
SaveArg(it) == it.ts

\* ------------------------------------------------------------------ state
VARIABLES
  file,           \* content of state/watermark.json
  POST_LATEST_ON_FIRST_RUN,  \* line 11
  pc,             \* where the run is: idle (no process), fetch, sort,
                  \* post1, save1, seed, post2, save2, done
  down,           \* the feeds whose fetch or parse failed in this run
  fetched,        \* entries the other feeds returned in this run
  items,          \* run(): items
  newest,         \* run(): newest (NoItem before line 80)
  last_ts,        \* run(): last_ts
  pick,           \* run(): pick (NoItem before line 108)
  sent,           \* the item handed to post_to_discord in this run
  posts,          \* post_to_discord calls of this run
  saves,          \* save_watermark calls of this run
  loads,          \* load_watermark calls of this run
  delivered,      \* "none", "ok" (post returned), "failed" (post raised)
  saveArg,        \* the argument of this run's save_watermark call
  saved,          \* "none", "ok" (write_text returned), "failed" (raised)
  exit,           \* "none", "returned", "raised" (exception left run())
  file0,          \* the file as it was when this process started
  failed,         \* the item whose delivery failed in the previous run
  lastPostedTs,   \* timestamp of the item the latest posting run before
                  \* this one delivered; None when there is none or when
                  \* a save_watermark call has raised since
  wmHigh,         \* the greatest watermark the file held when a process
                  \* started or ended, None when it never held one
  killBase,       \* when the previous process was killed: the greatest
                  \* watermark it could have stored had it run to its end
  call,           \* the arguments of the function applied on its own
  result,         \* what it returned
  applied         \* whether it has returned

vars ==
  <<file, POST_LATEST_ON_FIRST_RUN, pc, down, fetched, items, newest, last_ts, pick, sent,
    posts, saves, loads, delivered, saveArg, saved, exit, file0, failed,
    lastPostedTs, wmHigh, killBase, call, result, applied>>

locals == <<down, fetched, items, newest, last_ts, pick>>
config == <<POST_LATEST_ON_FIRST_RUN>>
history == <<failed, lastPostedTs, wmHigh, killBase>>
apply == <<call, result, applied>>
NoCall == [fn |-> "none"]

\* The process has not run yet; the file is whatever earlier processes or
\* the operator left there.
InitRun ==
  /\ file \in FileStates
  /\ POST_LATEST_ON_FIRST_RUN \in BOOLEAN
  /\ pc = "idle"
  /\ down = {}
  /\ fetched = 0
  /\ items = <<>>
  /\ newest = NoItem
  /\ last_ts = None
  /\ pick = NoItem
  /\ sent = NoItem
  /\ posts = 0
  /\ saves = 0
  /\ loads = 0
  /\ delivered = "none"
  /\ saveArg = None
  /\ saved = "none"
  /\ exit = "none"
  /\ file0 = file
  /\ failed = NoItem
  /\ lastPostedTs = None
  /\ wmHigh = load_watermark(file)
  /\ killBase = None

Init ==
  /\ InitRun
  /\ call = NoCall
  /\ result = <<>>
  /\ applied = FALSE

\* A process starts: the configuration is read (lines 7-16), run() is
\* called and asks for the first feed (line 63).
Start ==
  /\ pc = "idle"
  /\ pc' = "fetch"
  /\ UNCHANGED <<apply, file, config, locals, sent, posts, saves, loads, delivered,
                 saveArg, saved, exit, file0, history>>

\* Lines 60-76: the entries of every feed are gathered, in configuration
\* order.  es is what the feeds hold, feed by feed; fa[i] is the index in
\* FEEDS of the feed of entry i; down are the feeds that fail.  Without
\* items the run returns at line 76.
Gather ==
  /\ pc = "fetch"
  /\ \E n \in 0..MaxItems :
       \E es \in [1..n -> Entries], fa \in [1..n -> 1..Len(FEEDS)],
          dn \in SUBSET (1..Len(FEEDS)) :
         /\ \A i \in 1..n, j \in 1..n : i <= j => fa[i] <= fa[j]
         /\ down' = dn
         /\ fetched' = Cardinality({i \in 1..n : fa[i] \notin dn})
         /\ items' = GatherFrom(1, es, fa, dn)
  /\ pc' = IF items' = <<>> THEN "done" ELSE "sort"
  /\ exit' = IF items' = <<>> THEN "returned" ELSE "none"
  /\ UNCHANGED <<apply, file, config, newest, last_ts, pick, sent, posts, saves,
                 loads, delivered, saveArg, saved, file0, history>>

\* Lines 78-108: sort, take the newest, load the watermark and decide.
Decide ==
  /\ pc = "sort"
  /\ LET sorted == SortDesc(items)
         w == load_watermark(file)
         c == candidates(sorted, w.v)
     IN /\ items' = sorted
        /\ newest' = sorted[1]
        /\ last_ts' = w
        /\ loads' = loads + 1
        /\ IF ~w.some
             THEN /\ pc' = FirstRunBranch(POST_LATEST_ON_FIRST_RUN)
                  /\ pick' = NoItem
                  /\ exit' = "none"
             ELSE IF c = <<>>
               THEN /\ pc' = "done"
                    /\ pick' = NoItem
                    /\ exit' = "returned"
               ELSE /\ pc' = "post2"
                    /\ pick' = MaxByTs(c)
                    /\ exit' = "none"
  /\ UNCHANGED <<apply, file, config, down, fetched, sent, posts, saves, delivered,
                 saveArg, saved, file0, history>>

\* post_to_discord(it) at line 90 or 110: it returns, or it raises
\* (timeout, transport error, non-2xx status).
Post(at, it, saveAt) ==
  /\ pc = at
  /\ posts' = posts + 1
  /\ sent' = it
  /\ \/ /\ delivered' = "ok"
        /\ pc' = saveAt
        /\ exit' = "none"
     \/ /\ delivered' = "failed"
        /\ pc' = OnPostError(at)
        /\ exit' = "returned"
  /\ UNCHANGED <<apply, file, config, locals, saves, loads, saveArg, saved, file0,
                 history>>

\* save_watermark(ts_val) at line 91, 97 or 111: the write completes, or it
\* raises.  The exception is caught inside the try blocks (caught = TRUE)
\* and leaves run() from the seed-only branch.
Save(at, ts_val, caught) ==
  /\ pc = at
  /\ saves' = saves + 1
  /\ saveArg' = Some(ts_val)
  /\ pc' = "done"
  /\ \/ /\ file' = save_watermark(ts_val)
        /\ saved' = "ok"
        /\ exit' = "returned"
     \/ /\ file' \in FailedWrite(file)
        /\ saved' = "failed"
        /\ exit' = IF caught THEN "returned" ELSE "raised"
  /\ UNCHANGED <<apply, config, locals, sent, posts, loads, delivered, file0,
                 history>>

\* Lines 89-94.
PostFirstRun == Post("post1", newest, "save1")
SaveFirstRun == Save("save1", SaveArg(newest), TRUE)

\* Lines 96-98.
SeedOnly == Save("seed", newest.ts, FALSE)

\* Lines 109-114.
PostNewer == Post("post2", pick, "save2")
SaveNewer == Save("save2", SaveArg(pick), TRUE)

\* The process ends; the next one starts from the file alone.
Exit ==
  /\ pc = "done"
  /\ pc' = "idle"
  /\ failed' = IF delivered = "failed" THEN sent ELSE NoItem
  /\ lastPostedTs' = IF saved = "failed" THEN None
                     ELSE IF delivered = "ok" THEN Some(sent.ts)
                     ELSE lastPostedTs
  /\ wmHigh' = LET w == load_watermark(file)
               IN IF w.some /\ (~wmHigh.some \/ w.v > wmHigh.v) THEN w
                  ELSE wmHigh
  /\ killBase' = None
  /\ file0' = file
  /\ down' = {}
  /\ fetched' = 0
  /\ items' = <<>>
  /\ newest' = NoItem
  /\ last_ts' = None
  /\ pick' = NoItem
  /\ sent' = NoItem
  /\ posts' = 0
  /\ saves' = 0
  /\ loads' = 0
  /\ delivered' = "none"
  /\ saveArg' = None
  /\ saved' = "none"
  /\ exit' = "none"
  /\ UNCHANGED <<apply, file, config>>

\* What a kill in the middle of write_text (line 43) leaves: the file as it
\* was (not opened yet) or the truncated file.  A kill after the last byte
\* is a completed save followed by the end of the process.
KilledWrite(f) == {f, Garbage}

\* The process is killed after the items are gathered: before the post,
\* between the post and the watermark write, or during the write.
Kill ==
  /\ pc \in {"sort", "post1", "save1", "seed", "post2", "save2"}
  /\ file' \in IF pc \in {"save1", "seed", "save2"} THEN KilledWrite(file)
                ELSE {file}
  /\ killBase' = LET w == load_watermark(file0)
                     m == MaxByTs(items).ts
                 IN Some(IF w.some /\ w.v > m THEN w.v ELSE m)
  /\ pc' = "idle"
  /\ failed' = NoItem
  /\ lastPostedTs' = None
  /\ wmHigh' = wmHigh
  /\ file0' = file'
  /\ down' = {}
  /\ fetched' = 0
  /\ items' = <<>>
  /\ newest' = NoItem
  /\ last_ts' = None
  /\ pick' = NoItem
  /\ sent' = NoItem
  /\ posts' = 0
  /\ saves' = 0
  /\ loads' = 0
  /\ delivered' = "none"
  /\ saveArg' = None
  /\ saved' = "none"
  /\ exit' = "none"
  /\ UNCHANGED <<apply, config>>

Next ==
  \/ Start
  \/ Gather
  \/ Decide
  \/ PostFirstRun
  \/ SaveFirstRun
  \/ SeedOnly
  \/ PostNewer
  \/ SaveNewer
  \/ Exit

Spec == Init /\ [][Next]_vars

\* The steps whose duration the program bounds: requests.post carries
\* timeout=TIMEOUT_SECS (line 52) and the rest is local computation and file
\* access.  feedparser.parse(url) at line 63 is called with no timeout, so
\* nothing forces Gather to be taken.
Bounded ==
  \/ Decide
  \/ PostFirstRun
  \/ SaveFirstRun
  \/ SeedOnly
  \/ PostNewer
  \/ SaveNewer

\* The runs in which every bounded step is eventually taken.
SpecFair == Spec /\ WF_vars(Bounded)

\* A delivery that succeeds and a watermark write that completes.
Delivered == (PostFirstRun \/ PostNewer) /\ delivered' = "ok"
Written == (SaveFirstRun \/ SeedOnly \/ SaveNewer) /\ saved' = "ok"

\* The runs of a scheduler that keeps starting the script (README: cron),
\* with feeds that answer, a webhook that does not fail for ever and a
\* watermark write that does not fail for ever.
SpecLive ==
  /\ Spec
  /\ WF_vars(Start)
  /\ WF_vars(Gather)
  /\ WF_vars(Bounded)
  /\ WF_vars(Exit)
  /\ SF_vars(Delivered)
  /\ SF_vars(Written)

\* The runs with kills.
NextKill == Next \/ Kill
SpecKill == Init /\ [][NextKill]_vars

\* ------------------------------------------------------------ the message
\* Texts are sequences of characters; Text(n, c) is n times the character c.
Text(n, c) == [i \in 1..n |-> c]

\* The one character U+2026 that truncate appends.
Ellipsis == "U+2026"

\* The cap post_to_discord passes to truncate for the title (line 49) and
\* for the description (line 51).
FieldLimit == 1800

\* A truncate that keeps limit characters before the marker.
truncateKeepLimit(s, limit) ==
  IF Len(s) <= limit THEN s ELSE SubSeq(s, 1, limit) \o <<Ellipsis>>

\* truncate (lines 45-46): s[:limit-1] + the ellipsis when s is longer than limit.
truncate(s, limit) ==
  IF Len(s) <= limit THEN s ELSE SubSeq(s, 1, limit - 1) \o <<Ellipsis>>

\* The content post_to_discord builds (lines 49-51): "**title**\nlink", and
\* "\ndesc" when desc is not empty.
content(title, link, desc) ==
  LET head == <<"*", "*">> \o truncate(title, FieldLimit)
                \o <<"*", "*", "\n">> \o link
  IN IF desc # <<>> THEN head \o <<"\n">> \o truncate(desc, FieldLimit)
     ELSE head

\* The lengths of the titles and descriptions tried: around zero, around
\* the cap, and far above it.
TextLens ==
  (0..LenSlack)
    \cup ((FieldLimit - LenSlack)..(FieldLimit + LenSlack))
    \cup {LongLen}

Texts == {Text(n, c) : n \in TextLens, c \in {"a", Ellipsis}}

\* Links: a short one and one longer than the cap.
Links == {Text(n, "h") : n \in {1, FieldLimit + LenSlack}}

MsgCalls ==
  [fn : {"post_to_discord"}, title : Texts, link : Links, desc : Texts]

\* post_to_discord is applied to each triple of texts; no run is going on.
InitMsg ==
  /\ file = Missing
  /\ POST_LATEST_ON_FIRST_RUN = TRUE
  /\ InitRun
  /\ call \in MsgCalls
  /\ result = <<>>
  /\ applied = FALSE

Compose ==
  /\ call.fn = "post_to_discord"
  /\ ~applied
  /\ result' = content(call.title, call.link, call.desc)
  /\ applied' = TRUE
  /\ UNCHANGED <<call, file, config, pc, locals, sent, posts, saves, loads,
                 delivered, saveArg, saved, exit, file0, history>>

NextMsg == Compose
SpecMsg == InitMsg /\ [][NextMsg]_vars


\* --------------------------------------------------------- the item record
\* An optional text attribute of a raw entry: absent, or present with a
\* text that may be empty.
Absent == [has |-> FALSE, s |-> ""]
Attr(s) == [has |-> TRUE, s |-> s]
Attrs == {Absent, Attr(""), Attr("x")}

\* getattr(e, name, default): the default is taken only when the attribute
\* is absent.
getattr(a, default) == IF a.has THEN a.s ELSE default

\* The raw entries with every combination of their optional fields.
RawEntries ==
  [id : {"a"},
   title : Attrs,
   link : Attrs,
   summary : Attrs,
   description : Attrs,
   published_parsed : {NoTime, BadTime} \cup {Time(t) : t \in 1..MaxTs},
   updated_parsed : {NoTime, BadTime} \cup {Time(t) : t \in 1..MaxTs},
   created_parsed : {NoTime, BadTime} \cup {Time(t) : t \in 1..MaxTs}]

\* The whole record of lines 65-72; Item above is its part that the
\* selection reads.
ItemRecord(e, url) ==
  [ts |-> ts_of(e),
   key |-> entry_key(e),
   title |-> getattr(e.title, "(no title)"),
   link |-> getattr(e.link, url),
   desc |-> IF getattr(e.summary, "") # "" THEN getattr(e.summary, "")
            ELSE getattr(e.description, ""),
   feed |-> url]

ItemCalls ==
  [fn : {"item"}, e : RawEntries, url : {FEEDS[k] : k \in 1..Len(FEEDS)}]

\* The record is built for each raw entry of each feed; no run is going on.
InitItem ==
  /\ file = Missing
  /\ POST_LATEST_ON_FIRST_RUN = TRUE
  /\ InitRun
  /\ call \in ItemCalls
  /\ result = <<>>
  /\ applied = FALSE

BuildItem ==
  /\ call.fn = "item"
  /\ ~applied
  /\ result' = ItemRecord(call.e, call.url)
  /\ applied' = TRUE
  /\ UNCHANGED <<call, file, config, pc, locals, sent, posts, saves, loads,
                 delivered, saveArg, saved, exit, file0, history>>

NextItem == BuildItem
SpecItem == InitItem /\ [][NextItem]_vars


\* ------------------------------------------------------- derived notions
Max(a, b) == IF a >= b THEN a ELSE b

RECURSIVE MaxTsOf(_)
\* The greatest timestamp of a non-empty item list.
MaxTsOf(s) ==
  IF Len(s) = 1 THEN s[1].ts ELSE Max(s[1].ts, MaxTsOf(Tail(s)))

Range(s) == {s[i] : i \in 1..Len(s)}

\* The run has passed line 83 (the watermark is loaded, the branch taken).
Decided == loads >= 1

\* The run took the first-run branch of line 86.
FirstRun == Decided /\ ~last_ts.some

\* The item this run posts or is about to post.
Target == IF last_ts.some THEN pick ELSE newest

\* ------------------------------------------------------------------ claims

\* C1: in every run, whatever the feeds return and whatever the watermark
\* file holds, post_to_discord is called at most once.
C1_AtMostOnePost == posts <= 1

\* Two gathered items are both newer than the watermark, the run has ended
\* after a failed delivery, and one post call was made.
C1_Witness ==
  /\ pc = "done"
  /\ posts = 1
  /\ delivered = "failed"
  /\ last_ts.some
  /\ Len(items) >= 2
  /\ \A i \in 1..Len(items) : items[i].ts > last_ts.v

\* C2 as stated: every run reads the watermark once and saves it at most
\* once; a save follows a post of the same run that returned, or is the
\* seed-only write of a first run; a run that posts nothing or whose
\* delivery fails leaves the file as it was.
C2_AsStated ==
  /\ pc = "done" => loads = 1
  /\ saves <= 1
  /\ saves = 1 =>
       \/ delivered = "ok" /\ posts = 1
       \/ posts = 0 /\ FirstRun /\ ~POST_LATEST_ON_FIRST_RUN
  /\ (pc = "done" /\ saves = 0) => file = file0
  /\ delivered = "failed" => file = file0

C2_State ==
  /\ loads <= 1
  /\ pc = "done" => loads = IF items = <<>> THEN 0 ELSE 1
  /\ pc \in {"post1", "save1", "seed", "post2", "save2"} => loads = 1
  /\ saves <= 1
  /\ saves = 1 =>
       \/ delivered = "ok" /\ posts = 1
       \/ posts = 0 /\ FirstRun /\ ~POST_LATEST_ON_FIRST_RUN
  /\ (posts = 0 \/ delivered = "failed") =>
       \/ file = file0 /\ saves = 0
       \/ posts = 0 /\ FirstRun /\ ~POST_LATEST_ON_FIRST_RUN

C2_Step ==
  /\ (delivered # "ok" /\ delivered' = "ok") => pc' \in {"save1", "save2"}
  /\ pc \in {"save1", "save2"} => saves' = saves + 1 /\ delivered = "ok"
  /\ file' # file => saves' = saves + 1

\* C2 (amended): a run that gathers no item returns without reading the
\* watermark, every other run reads it exactly once; save_watermark is
\* called at most once per run; the call is the step right after a post of
\* the same run that returned, or it is the seed-only write of a first
\* run; the file changes only in a save_watermark call, so a run that posts
\* nothing (the seed-only write apart) or whose delivery fails leaves it as
\* it was.
C2_ReadOnceSaveAfterPost == []C2_State /\ [][C2_Step]_vars

\* A run has read the watermark once, posted, and saved once.
C2_Witness ==
  /\ pc = "done"
  /\ loads = 1
  /\ posts = 1
  /\ delivered = "ok"
  /\ saves = 1
  /\ saved = "ok"
  /\ file # file0

\* C3 as stated: a failed delivery leaves the watermark as it was, and the
\* next run attempts the delivery of the same item.
C3_AsStated ==
  /\ delivered = "failed" => file = file0
  /\ (pc = "done" /\ failed # NoItem) => posts = 1 /\ sent = failed

\* C3 (amended): a failed delivery leaves the watermark file as it was;
\* when the next run gathers the failed item again it attempts a delivery,
\* of an item at least as new as the failed one, and of the failed item
\* itself when that is the first item of the sorted list.
C3_FailedItemRetried ==
  /\ delivered = "failed" => file = file0 /\ saves = 0
  /\ (Decided /\ failed # NoItem /\ failed \in Range(items)) =>
       /\ pc \in {"post1", "post2"} \/ posts = 1
       /\ Target.ts >= failed.ts
       /\ items[1] = failed => Target = failed
       /\ posts = 1 => sent = Target

\* The item whose delivery failed in the previous run was gathered again
\* with another item and has now been delivered.
C3_Witness ==
  /\ pc = "done"
  /\ failed # NoItem
  /\ Len(items) >= 2
  /\ sent = failed
  /\ delivered = "ok"

\* C4: with a watermark W loaded and every gathered item at timestamp <= W
\* the run calls neither post_to_discord nor save_watermark and returns.
C4_NoRepost ==
  (last_ts.some /\ items # <<>>
     /\ \A i \in 1..Len(items) : items[i].ts <= last_ts.v) =>
    /\ pc = "done"
    /\ exit = "returned"
    /\ posts = 0
    /\ saves = 0
    /\ file = file0

\* A run has ended without a post although an item carries exactly the
\* watermark's timestamp.
C4_Witness ==
  /\ pc = "done"
  /\ last_ts.some
  /\ last_ts.v >= 1
  /\ Len(items) >= 2
  /\ items[1].ts = last_ts.v
  /\ posts = 0

C5_State ==
  (pc = "done" /\ delivered = "ok" /\ saved = "ok") =>
    /\ file = Record(sent.ts)
    /\ load_watermark(file) = Some(sent.ts)
    /\ load_watermark(file0).some => sent.ts > load_watermark(file0).v

C5_Step ==
  (saved' # "failed" /\ load_watermark(file).some) =>
    /\ load_watermark(file').some
    /\ load_watermark(file').v >= load_watermark(file).v

C6_Step ==
  (pc = "sort" /\ ~load_watermark(file).some) =>
    /\ newest' \in Range(items)
    /\ \A i \in 1..Len(items) : newest'.ts >= items[i].ts

C6_State ==
  FirstRun =>
    /\ newest = items[1]
    /\ posts = 1 => sent = newest
    /\ saves = 1 => saveArg = Some(newest.ts)

\* C6: with the watermark absent, the item the run takes (newest, the head
\* of the sorted list) is one of the gathered items and no gathered item of
\* any feed, in whatever order the feeds returned them, has a greater
\* timestamp; it is the item posted and the timestamp saved.
C6_MergeCorrectness == []C6_State /\ [][C6_Step]_vars

\* The newest item came from the second feed, behind an older item of the
\* first feed, and is about to be posted.
C6_Witness ==
  /\ pc = "post1"
  /\ Len(items) = 2
  /\ newest.feed = FEEDS[2]
  /\ items[2].feed = FEEDS[1]
  /\ newest.ts > items[2].ts

\* C7: on a first run with POST_LATEST_ON_FIRST_RUN false and at least one
\* item, post_to_discord is not called and save_watermark is called with
\* the greatest timestamp of all items; when the write completes the file
\* holds that timestamp.
C7_SeedOnly ==
  (FirstRun /\ ~POST_LATEST_ON_FIRST_RUN) =>
    /\ pc \in {"seed", "done"}
    /\ posts = 0
    /\ sent = NoItem
    /\ pc = "done" =>
         /\ saves = 1
         /\ saveArg = Some(MaxTsOf(items))
         /\ saved = "ok" => file = Record(MaxTsOf(items))

\* A first run has seeded the greatest of two timestamps without posting.
C7_Witness ==
  /\ pc = "done"
  /\ FirstRun
  /\ ~POST_LATEST_ON_FIRST_RUN
  /\ Len(items) >= 2
  /\ \E i \in 1..Len(items) : items[i].ts < MaxTsOf(items)
  /\ saved = "ok"
  /\ file = Record(MaxTsOf(items))
  /\ posts = 0

\* C8: on a first run with POST_LATEST_ON_FIRST_RUN true and at least one
\* item, the item handed to post_to_discord has the greatest timestamp; the
\* stored watermark is that timestamp only when the post returned, and the
\* file is as it was (no watermark) when the post raised.
C8_FirstRunPost ==
  (FirstRun /\ POST_LATEST_ON_FIRST_RUN) =>
    /\ pc \in {"post1", "save1", "done"}
    /\ pc = "done" => posts = 1
    /\ posts = 1 => sent = newest /\ sent.ts = MaxTsOf(items)
    /\ delivered # "ok" => file = file0 /\ ~load_watermark(file).some
    /\ load_watermark(file).some =>
         delivered = "ok" /\ load_watermark(file) = Some(sent.ts)

\* A first run has delivered the newer of two items and stored its
\* timestamp.
C8_Witness ==
  /\ pc = "done"
  /\ FirstRun
  /\ POST_LATEST_ON_FIRST_RUN
  /\ Len(items) >= 2
  /\ items[1].ts > items[2].ts
  /\ delivered = "ok"
  /\ file = Record(sent.ts)

\* C9: a malformed watermark file (not parseable, no last_ts field, last_ts
\* of a wrong type) loads as None, and the run is a first run: it posts the
\* newest item when POST_LATEST_ON_FIRST_RUN is true and seeds without
\* posting otherwise.
C9_CorruptIsAbsent ==
  (Decided /\ file0 \in Malformed) =>
    /\ last_ts = None
    /\ pc = "done" =>
         IF POST_LATEST_ON_FIRST_RUN
           THEN posts = 1 /\ sent = newest
           ELSE posts = 0 /\ saves = 1

\* C10: over runs that start from the file alone, as long as no
\* save_watermark call has raised since the latest posting run, the item a
\* run delivers is strictly newer than the item that posting run delivered:
\* the delivered timestamps increase and no delivered item is delivered
\* again.
C10_NoRepostAcrossRestarts ==
  (delivered = "ok" /\ lastPostedTs.some) => sent.ts > lastPostedTs.v

\* A second posting run has delivered a newer item than the first.
C10_Witness ==
  /\ pc = "done"
  /\ lastPostedTs.some
  /\ delivered = "ok"
  /\ saved = "ok"
  /\ sent.ts > lastPostedTs.v

\* C12: a feed whose fetch or parse fails contributes no item, and the run
\* goes on with the other feeds: every entry they return is merged, and the
\* selection, the post and the watermark write run as for any item list.
C12_FailedFeedSkipped ==
  /\ \A i \in 1..Len(items) : \A k \in down : items[i].feed # FEEDS[k]
  /\ pc \notin {"idle", "fetch"} => Len(items) = fetched
  /\ (down # {} /\ items # <<>> /\ pc = "done") =>
       /\ Decided
       /\ exit = "raised" => saved = "failed"
       /\ (FirstRun /\ POST_LATEST_ON_FIRST_RUN) =>
            posts = 1 /\ sent.ts = MaxTsOf(items)
       /\ (FirstRun /\ ~POST_LATEST_ON_FIRST_RUN) => saves = 1
       /\ (last_ts.some /\ MaxTsOf(items) > last_ts.v) =>
            posts = 1 /\ sent.ts = MaxTsOf(items)
       /\ delivered = "ok" => saves = 1

\* The first feed failed; the item of the second feed was posted and its
\* timestamp stored.
C12_Witness ==
  /\ pc = "done"
  /\ down = {1}
  /\ items # <<>>
  /\ delivered = "ok"
  /\ saved = "ok"
  /\ file = Record(sent.ts)

\* C13: with a valid configuration no failure ends the process abnormally:
\* a delivery failure, a feed failure and a watermark write failure, on the
\* first-run post, first-run seed-only and later-run post paths, are caught
\* and run() returns.
C13_RunReturnsNormally == exit # "raised"

\* C17: when save_watermark raises, the watermark file still holds what it
\* held before the call, and the next run loads the old watermark.
C17_FailedWriteKeepsRecord ==
  saved = "failed" =>
    file = file0 /\ load_watermark(file) = load_watermark(file0)

C16_GlobalWatermark == (posts = 1 /\ wmHigh.some) => sent.ts > wmHigh.v

\* C11 as stated: after a kill, an item that a run following the unkilled
\* process would post (it is newer than every watermark the killed run could
\* have stored) is posted by the run that follows the kill.
C11_AsStated ==
  (killBase.some /\ Decided /\ MaxTsOf(items) > killBase.v) =>
    /\ pc \in {"post1", "post2"} \/ posts = 1
    /\ Target.ts = MaxTsOf(items)

\* C11 (amended): after a kill before the post, between the post and the
\* write or during the write, the run that follows posts every item that is
\* newer than all the killed run could have stored, unless it is a first
\* run with POST_LATEST_ON_FIRST_RUN false (the killed run was a seed-only
\* first run, or the kill left a truncated file): then it seeds and the
\* item is not posted.
C11_NoMissAfterKill ==
  (killBase.some /\ Decided /\ MaxTsOf(items) > killBase.v
     /\ (POST_LATEST_ON_FIRST_RUN \/ last_ts.some)) =>
    /\ pc \in {"post1", "post2"} \/ posts = 1
    /\ Target.ts = MaxTsOf(items)
    /\ posts = 1 => sent = Target

\* The run after a kill found no watermark and has delivered an item newer
\* than all the killed run could have stored.
C11_Witness ==
  /\ killBase.some
  /\ pc = "done"
  /\ ~last_ts.some
  /\ Len(items) >= 2
  /\ sent.ts > killBase.v
  /\ delivered = "ok"

\* C14 as stated: every run terminates, a run that started fetching its
\* feeds reaches the end of run().
C14_RunTerminates == (pc = "fetch") ~> (pc = "done")

\* C15: the message is "**", the rendered title, "**", a line break, the
\* link unaltered, and a line break with the rendered description only
\* when the description is not empty; each rendered text is at most
\* FieldLimit long, is the input when that is at most FieldLimit long, and
\* otherwise is FieldLimit long, starts as the input does and ends with
\* the ellipsis.
C15_Rendered(rendered, input) ==
  /\ Len(rendered) <= FieldLimit
  /\ Len(input) <= FieldLimit => rendered = input
  /\ Len(input) > FieldLimit =>
       /\ Len(rendered) = FieldLimit
       /\ rendered[FieldLimit] = Ellipsis
       /\ SubSeq(rendered, 1, FieldLimit - 1)
            = SubSeq(input, 1, FieldLimit - 1)

C15_MessageShape ==
  applied =>
    LET t == call.title
        l == call.link
        d == call.desc
        k == IF Len(t) <= FieldLimit THEN Len(t) ELSE FieldLimit
        afterLink == 5 + k + Len(l)
    IN /\ Len(result) >= afterLink
       /\ SubSeq(result, 1, 2) = <<"*", "*">>
       /\ C15_Rendered(SubSeq(result, 3, 2 + k), t)
       /\ SubSeq(result, 3 + k, 5 + k) = <<"*", "*", "\n">>
       /\ SubSeq(result, 6 + k, afterLink) = l
       /\ d = <<>> => Len(result) = afterLink
       /\ d # <<>> =>
            /\ Len(result) > afterLink + 1
            /\ result[afterLink + 1] = "\n"
            /\ C15_Rendered(SubSeq(result, afterLink + 2, Len(result)), d)

\* A title of LongLen characters and a description just over the cap have
\* been composed into a message.
C15_Witness ==
  /\ applied
  /\ Len(call.title) = LongLen
  /\ Len(call.desc) = FieldLimit + 1
  /\ Len(call.link) > FieldLimit
  /\ result[2 + FieldLimit] = Ellipsis

\* C18 as stated: whatever optional fields the raw entry has, absent or
\* empty, the item record has a numeric timestamp (0 when no parsed time
\* converts), a non-empty title and a non-empty link.
C18_ItemWellFormed ==
  applied =>
    /\ result.ts \in Nat
    /\ (\A f \in {"published_parsed", "updated_parsed", "created_parsed"} :
          call.e[f].kind # "ok") => result.ts = 0
    /\ result.title # ""
    /\ result.title \in {call.e.title.s, "(no title)"}
    /\ result.link # ""
    /\ result.link \in {call.e.link.s, call.url}

\* C20: what a run was offered, judged against the watermark the file
\* held when the process started.  A run is declined when the feeds gave
\* it nothing newer than that watermark, or nothing at all, or when there
\* was no watermark and first-run posting is off.
C20_Declined ==
  /\ pc \notin {"idle", "fetch"}
  /\ LET w == load_watermark(file0)
     IN \/ items = <<>>
        \/ w.some /\ MaxTsOf(items) <= w.v
        \/ ~w.some /\ ~POST_LATEST_ON_FIRST_RUN

\* A run has posted an item and the stored watermark is at least that
\* item's timestamp.
C20_Stored ==
  /\ pc = "done"
  /\ delivered = "ok"
  /\ saved = "ok"
  /\ load_watermark(file).some
  /\ load_watermark(file).v >= sent.ts

\* C20: under the fairness of SpecLive, if from some point on no run is
\* declined, then eventually a run posts an item and the stored watermark
\* is at least that item's timestamp.  That is []([]~D => <>S) for
\* D == C20_Declined and S == C20_Stored, written in the equivalent form
\* []<>(D \/ S).
C20_EventuallyPosted == []<>(C20_Declined \/ C20_Stored)

\* The previous run's delivery failed, and this run has posted an item and
\* stored its timestamp.
C20_Witness ==
  /\ C20_Stored
  /\ ~C20_Declined
  /\ failed # NoItem
  /\ sent = failed

====
